---- MODULE Spec2Model ----
(***************************************************************************)
(* Tenant onboarding and resource lifecycle coordinator.                   *)
(*                                                                         *)
(*   MicrosoftAuthService   (dashboard/src/lib/auth/microsoft-auth.ts)     *)
(*   ContentLifecycleManager (the content lifecycle manager script)        *)
(*                                                                         *)
(* These specifications share one set of variables:                        *)
(*   Spec         the sign-in pipeline, handleCallback called repeatedly   *)
(*   RetrierSpec  one invocation of forceOneDriveProvisioning              *)
(*   RetrierFairSpec  the same, where every awaited step completes         *)
(*   LedgerSpec   the resource ledger, its planner and its executor        *)
(*   PlanSpec     the planner and the executor over one session that holds *)
(*                any records of the six documented types and one other    *)
(*   PlanFairSpec the same, where executeCleanup runs on to its end        *)
(*   DurableLedgerSpec  the ledger over a file that takes every write      *)
(*   SharedStoreSpec    two managers over one tracking file                *)
(***************************************************************************)
EXTENDS Integers, Sequences, FiniteSets, TLC

VARIABLES
    \* ---- MicrosoftAuthService ----
    config,               \* this.config.oneDriveProvisioning
    pc,                   \* position of the running flow of control
    issued,               \* what initiateAuthFlow last produced (optional)
    callState,            \* handleCallback's `state` argument (optional: none while idle)
    options,              \* handleCallback's `options` argument
    shouldForceOneDrive,  \* local of handleCallback (optional)
    tokens,               \* local of handleCallback: result of the exchange
    user,                 \* local of handleCallback: result of getUserInfo
    oneDriveResult,       \* local of handleCallback / value the retrier returns
    result,               \* what handleCallback returned (optional)
    net,                  \* provider requests issued by the running call
    audit,                \* audit events built by the running call
    console,              \* audit lines written to the console by the running call
    inCallback,           \* TRUE when the retrier runs on behalf of handleCallback
    pvOptions,            \* forceOneDriveProvisioning's `options` argument
    attempt,              \* loop variable of forceOneDriveProvisioning
    elapsed,              \* (Date.now() - startTime) / 1000
    plog,                 \* reads and sleeps of the running retrier invocation
    firstResp,            \* answer to the first read of the invocation (optional)
    lastResp,             \* answer to the latest read of the invocation (optional)
    prev,                 \* summary of the previous retrier invocation (optional)
    \* ---- ContentLifecycleManager ----
    sessions,             \* this.sessions
    store,                \* contents of this.trackingFile
    now,                  \* Date.now()
    lpc,                  \* position inside executeCleanup
    lastOp,               \* how the latest ledger call ended
    cleanup,              \* locals of the running executeCleanup
    writable              \* whether writeFileSync on the tracking file succeeds

authVars == <<config, pc, issued, callState, options, shouldForceOneDrive, tokens,
              user, oneDriveResult, result, net, audit, console, inCallback>>
retrierVars == <<pvOptions, attempt, elapsed, plog, firstResp, lastResp, prev>>
ledgerVars == <<sessions, store, now, lpc, lastOp, cleanup, writable>>
vars == <<authVars, retrierVars, ledgerVars>>

(***************************************************************************)
(* Bounds of the model.                                                    *)
(***************************************************************************)
MaxAttempts == 6        \* largest retryAttempts tried in RetrierSpec
CallbackAttempts == 2   \* largest config retryAttempts tried in Spec
SlowFetch == 20         \* seconds a slow provider read takes
ShortWait == 5          \* a small maxWaitTime
LongWait == 150         \* a large maxWaitTime: room for six attempts and their sleeps

(***************************************************************************)
(* Optional values: <<>> is undefined, <<v>> is the value v.               *)
(***************************************************************************)
None == <<>>
Some(v) == <<v>>
Coalesce(a, b) == IF a # None THEN a ELSE b        \* a ?? b
Min(a, b) == IF a < b THEN a ELSE b

FetchLatencies == {0, SlowFetch}
MaxWaitTimes == {ShortWait, LongWait}

(***************************************************************************)
(* The state parameter.  A state text is one of                            *)
(*   "uuid"        the text of crypto.randomUUID()                         *)
(*   "json_true"   {"state":..,"forceOneDriveProvisioning":true}           *)
(*   "json_false"  {"state":..,"forceOneDriveProvisioning":false}          *)
(*   "json_plain"  {"state":..}      (an undefined member is not written)  *)
(*   "null"        the JSON text null                                      *)
(***************************************************************************)
StateTexts == {"uuid", "json_true", "json_false", "json_plain", "null"}

JSONstringify(stateData) ==
    IF stateData.forceOneDriveProvisioning = None THEN "json_plain"
    ELSE IF stateData.forceOneDriveProvisioning[1] THEN "json_true"
    ELSE "json_false"

JSONparseLenient(text) ==
    CASE text = "json_true"  -> [threw |-> FALSE, isNull |-> FALSE, force |-> Some(TRUE)]
      [] text = "json_false" -> [threw |-> FALSE, isNull |-> FALSE, force |-> Some(FALSE)]
      [] text = "null"       -> [threw |-> FALSE, isNull |-> TRUE,  force |-> None]
      [] OTHER               -> [threw |-> FALSE, isNull |-> FALSE, force |-> None]

\* JSON.parse: [threw, isNull, forceOneDriveProvisioning]
JSONparse(text) ==
    CASE text = "json_true"  -> [threw |-> FALSE, isNull |-> FALSE, force |-> Some(TRUE)]
      [] text = "json_false" -> [threw |-> FALSE, isNull |-> FALSE, force |-> Some(FALSE)]
      [] text = "json_plain" -> [threw |-> FALSE, isNull |-> FALSE, force |-> None]
      [] text = "null"       -> [threw |-> FALSE, isNull |-> TRUE,  force |-> None]
      [] OTHER               -> [threw |-> TRUE,  isNull |-> FALSE, force |-> None]

(***************************************************************************)
(* AuthResult values.                                                      *)
(***************************************************************************)
AuthFailure(code) ==
    [success |-> FALSE, user |-> None, tokens |-> None, error |-> Some(code)]

TokenSet == [accessToken |-> "AT", refreshToken |-> "RT", idToken |-> "IT"]
AuthenticatedUser == [id |-> "U1", tenantId |-> "T1", roles |-> <<>>]

OptionsArgs ==
    [forceOneDriveProvisioning : {None, Some(TRUE), Some(FALSE)},
     skipOneDriveProvisioning : BOOLEAN,
     maxOneDriveWait : {None, Some(ShortWait)}]

NoOptions ==
    [forceOneDriveProvisioning |-> None, skipOneDriveProvisioning |-> FALSE,
     maxOneDriveWait |-> None]

(***************************************************************************)
(* initiateAuthFlow.                                                       *)
(***************************************************************************)
\* the stateData object (the preference falls back to the configured default)
StateData(optForce, cfgForce) ==
    [state |-> "uuid", forceOneDriveProvisioning |-> Coalesce(optForce, Some(cfgForce))]

\* the object the call returns: `state` is the bare random text, the serialized
\* stateData travels only inside authUrl
AuthFlow(stateData) ==
    [state |-> stateData.state,
     urlState |-> JSONstringify(stateData),
     codeVerifier |-> "verifier",
     forceOneDriveProvisioning |-> stateData.forceOneDriveProvisioning[1]]

initiateAuthFlow(optForce) ==
    /\ pc = "idle"
    /\ issued' = Some(AuthFlow(StateData(optForce, config.forceProvisioning)))
    /\ UNCHANGED <<config, pc, callState, options, shouldForceOneDrive, tokens, user,
                   oneDriveResult, result, net, audit, console, inCallback>>
    /\ UNCHANGED <<retrierVars, ledgerVars>>

(***************************************************************************)
(* handleCallback.                                                         *)
(***************************************************************************)
ResolveForce(optForce, stateForce, cfgForce) ==
    Coalesce(optForce, Coalesce(stateForce, Some(cfgForce)))[1]

CallbackNoCatch ==
    [pc |-> "raised", result |-> None]

\* the catch block of handleCallback
CallbackCatch ==
    [pc |-> "returned", result |-> Some(AuthFailure("CALLBACK_ERROR"))]

\* the synchronous prefix: JSON.parse(state), the preference, then the token request
handleCallback(st, opts) ==
    /\ pc = "idle"
    /\ callState' = Some(st)
    /\ options' = opts
    /\ LET parsed == JSONparse(st)
       IN IF parsed.threw \/ parsed.isNull
          THEN /\ pc' = CallbackCatch.pc
               /\ result' = CallbackCatch.result
               /\ shouldForceOneDrive' = None
          ELSE /\ pc' = "token"
               /\ result' = None
               /\ shouldForceOneDrive' =
                      Some(ResolveForce(opts.forceOneDriveProvisioning, parsed.force,
                                        config.forceProvisioning))
    /\ tokens' = None
    /\ user' = None
    /\ oneDriveResult' = None
    /\ net' = <<>>
    /\ audit' = <<>>
    /\ console' = <<>>
    /\ inCallback' = TRUE
    /\ UNCHANGED <<config, issued>>
    /\ UNCHANGED <<retrierVars, ledgerVars>>

TokenResponses == {"ok", "error_envelope", "error_malformed", "fault"}

\* exchangeCodeForTokens, by what the token endpoint answered
TokenExchangeResult(resp) ==
    CASE resp = "ok" ->
             [success |-> TRUE, user |-> None, tokens |-> Some(TokenSet), error |-> None]
      [] resp = "error_envelope" -> AuthFailure("invalid_grant")
      [] OTHER -> AuthFailure("TOKEN_EXCHANGE_ERROR")

AfterExchangeWrapped(r) ==
    IF r.success THEN [pc |-> "me", result |-> None]
    ELSE [pc |-> "returned", result |-> Some(AuthFailure("CALLBACK_ERROR"))]

\* if (!tokens.success) return tokens
AfterExchange(r) ==
    IF r.success THEN [pc |-> "me", result |-> None]
    ELSE [pc |-> "returned", result |-> Some(r)]

exchangeCodeForTokens(resp) ==
    /\ pc = "token"
    /\ net' = Append(net, "token")
    /\ LET r == TokenExchangeResult(resp)
       IN /\ tokens' = Some(r)
          /\ pc' = AfterExchange(r).pc
          /\ result' = AfterExchange(r).result
    /\ UNCHANGED <<config, issued, callState, options, shouldForceOneDrive, user,
                   oneDriveResult, audit, console, inCallback>>
    /\ UNCHANGED <<retrierVars, ledgerVars>>

(***************************************************************************)
(* getUserInfo: three reads (profile, organization, license inventory).    *)
(***************************************************************************)
ProfileResponses == {"ok", "error_envelope", "error_malformed", "fault"}
\* "no_value": a body without `value`; "empty": `value` is an empty array
OrganizationResponses == {"ok", "no_value", "empty", "fault"}
LicenseResponses == {"ok", "no_value", "fault"}

UserInfoSuccess ==
    [success |-> TRUE, user |-> Some(AuthenticatedUser), tokens |-> None, error |-> None]

ShouldRunIgnoringSkip(shouldForce, skip) ==
    shouldForce

\* if (shouldForceOneDrive && !options?.skipOneDriveProvisioning)
ShouldRun(shouldForce, skip) ==
    shouldForce /\ ~skip

\* handleCallback from the moment getUserInfo has returned r, up to the call of
\* forceOneDriveProvisioning or of createAuthAuditEvent
ContinueAfterUserInfo(r) ==
    /\ user' = Some(r)
    /\ IF ~r.success
       THEN /\ pc' = "returned"
            /\ result' = Some(r)
            /\ UNCHANGED pvOptions
       ELSE /\ result' = None
            /\ IF ShouldRun(shouldForceOneDrive[1], options.skipOneDriveProvisioning)
               THEN /\ pc' = "provision"
                    /\ pvOptions' =
                          [maxWaitTime |->
                               Coalesce(options.maxOneDriveWait, Some(config.maxWaitTime))[1],
                           retryAttempts |-> config.retryAttempts]
               ELSE /\ pc' = "audit"
                    /\ UNCHANGED pvOptions

getUserInfoProfile(resp) ==
    /\ pc = "me"
    /\ net' = Append(net, "me")
    /\ CASE resp = "ok" ->
                /\ pc' = "organization"
                /\ UNCHANGED <<user, result, pvOptions>>
         [] resp = "error_envelope" ->
                ContinueAfterUserInfo(AuthFailure("InvalidAuthenticationToken"))
         [] OTHER ->
                ContinueAfterUserInfo(AuthFailure("USER_INFO_ERROR"))
    /\ UNCHANGED <<config, issued, callState, options, shouldForceOneDrive, tokens,
                   oneDriveResult, audit, console, inCallback>>
    /\ UNCHANGED <<attempt, elapsed, plog, firstResp, lastResp, prev>>
    /\ UNCHANGED ledgerVars

getUserInfoOrganization(resp) ==
    /\ pc = "organization"
    /\ net' = Append(net, "organization")
    /\ CASE resp = "ok" ->
                /\ pc' = "subscribedSkus"
                /\ UNCHANGED <<user, result, pvOptions>>
         [] resp = "empty" ->
                \* tenant is undefined; it is first dereferenced after the next read
                /\ pc' = "subscribedSkus_noTenant"
                /\ UNCHANGED <<user, result, pvOptions>>
         [] OTHER ->
                ContinueAfterUserInfo(AuthFailure("USER_INFO_ERROR"))
    /\ UNCHANGED <<config, issued, callState, options, shouldForceOneDrive, tokens,
                   oneDriveResult, audit, console, inCallback>>
    /\ UNCHANGED <<attempt, elapsed, plog, firstResp, lastResp, prev>>
    /\ UNCHANGED ledgerVars

getUserInfoLicenses(resp) ==
    /\ pc \in {"subscribedSkus", "subscribedSkus_noTenant"}
    /\ net' = Append(net, "subscribedSkus")
    /\ IF resp = "ok" /\ pc = "subscribedSkus"
       THEN ContinueAfterUserInfo(UserInfoSuccess)
       ELSE ContinueAfterUserInfo(AuthFailure("USER_INFO_ERROR"))
    /\ UNCHANGED <<config, issued, callState, options, shouldForceOneDrive, tokens,
                   oneDriveResult, audit, console, inCallback>>
    /\ UNCHANGED <<attempt, elapsed, plog, firstResp, lastResp, prev>>
    /\ UNCHANGED ledgerVars

(***************************************************************************)
(* forceOneDriveProvisioning.                                              *)
(***************************************************************************)
BackoffStep == 10
BackoffCap == 30

DriveResponses == {"ok", "not_setup", "error", "fault"}

\* the four object literals the function returns; a member a literal does not
\* write is undefined
ReadyResult(t) ==
    [success |-> TRUE, status |-> "READY", driveUrl |-> Some("webUrl"),
     provisioningTime |-> Some(t), errorCode |-> None, isNewUserScenario |-> None]
NotSetupResult ==
    [success |-> FALSE, status |-> "NOT_SETUP", driveUrl |-> None,
     provisioningTime |-> None, errorCode |-> Some("NOT_SETUP_YET"),
     isNewUserScenario |-> Some(TRUE)]
TimeoutResult(t) ==
    [success |-> FALSE, status |-> "PROVISIONING", driveUrl |-> None,
     provisioningTime |-> Some(t), errorCode |-> Some("PROVISIONING_TIMEOUT"),
     isNewUserScenario |-> Some(TRUE)]
ErrorResult(t) ==
    [success |-> FALSE, status |-> "ERROR", driveUrl |-> None,
     provisioningTime |-> Some(t), errorCode |-> Some("ONEDRIVE_ERROR"),
     isNewUserScenario |-> None]

ReadEvent(n) == [ev |-> "read", n |-> n]
SleepEvent(secs) == [ev |-> "sleep", n |-> secs]
NumReads(log) == Cardinality({i \in 1..Len(log) : log[i].ev = "read"})
NumSleeps(log) == Cardinality({i \in 1..Len(log) : log[i].ev = "sleep"})

WaitTimeUncapped(att) == att * BackoffStep

\* Math.min(attempt * 10, 30)
WaitTime(att) == Min(att * BackoffStep, BackoffCap)

\* (Date.now() - startTime) / 1000 > options.maxWaitTime
BudgetExceeded(el, maxWaitTime) == el > maxWaitTime

ResponseOkInverted(resp) == resp # "ok"

\* driveResponse.ok
ResponseOk(resp) == resp = "ok"

AttemptOutcomeSwallowsFault(resp, att, retryAttempts) ==
    CASE resp = "fault" -> "tail"
      [] ResponseOk(resp) -> "ready"
      [] resp = "not_setup" /\ att = 1 -> "not_setup"
      [] OTHER -> IF att < retryAttempts THEN "sleep" ELSE "tail"

AttemptOutcomeNoEarlyReturn(resp, att, retryAttempts) ==
    CASE resp = "fault" -> IF att = retryAttempts THEN "throw" ELSE "tail"
      [] ResponseOk(resp) /\ att = retryAttempts -> "ready"
      [] resp = "not_setup" /\ att = 1 -> "not_setup"
      [] OTHER -> IF att < retryAttempts THEN "sleep" ELSE "tail"

AttemptOutcomeNotSetupAnyAttempt(resp, att, retryAttempts) ==
    CASE resp = "fault" -> IF att = retryAttempts THEN "throw" ELSE "tail"
      [] ResponseOk(resp) -> "ready"
      [] resp = "not_setup" -> "not_setup"
      [] OTHER -> IF att < retryAttempts THEN "sleep" ELSE "tail"

\* One pass through the loop body, by what the read answered:
\*   "ready"      return READY
\*   "not_setup"  return NOT_SETUP (first attempt only)
\*   "sleep"      wait, then the budget check
\*   "tail"       straight to the budget check
\*   "throw"      rethrown by the inner catch
AttemptOutcome(resp, att, retryAttempts) ==
    CASE resp = "fault" -> IF att = retryAttempts THEN "throw" ELSE "tail"
      [] ResponseOk(resp) -> "ready"
      [] resp = "not_setup" /\ att = 1 -> "not_setup"
      [] OTHER -> IF att < retryAttempts THEN "sleep" ELSE "tail"

ProvisioningNoCatch(t) ==
    [raised |-> TRUE, value |-> ErrorResult(t)]

\* the outer catch block of forceOneDriveProvisioning
ProvisioningCatch(t) ==
    [raised |-> FALSE, value |-> ErrorResult(t)]

\* forceOneDriveProvisioning hands r back to whoever called it
ProvisioningReturns(r) ==
    IF r.raised
    THEN /\ oneDriveResult' = None
         /\ IF inCallback
            THEN /\ pc' = CallbackCatch.pc
                 /\ result' = CallbackCatch.result
            ELSE /\ pc' = "raised"
                 /\ UNCHANGED result
    ELSE /\ oneDriveResult' = Some(r.value)
         /\ pc' = IF inCallback THEN "audit" ELSE "provisioned"
         /\ UNCHANGED result

Returned(v) == [raised |-> FALSE, value |-> v]

LoopTailOneMoreAttempt(el) ==
    IF BudgetExceeded(el, pvOptions.maxWaitTime) \/ attempt > pvOptions.retryAttempts
    THEN /\ ProvisioningReturns(Returned(TimeoutResult(el)))
         /\ UNCHANGED attempt
    ELSE /\ attempt' = attempt + 1
         /\ pc' = "drive"
         /\ UNCHANGED <<oneDriveResult, result>>

\* the budget check that ends the loop body, the loop increment and the loop test
LoopTail(el) ==
    IF BudgetExceeded(el, pvOptions.maxWaitTime) \/ attempt + 1 > pvOptions.retryAttempts
    THEN /\ ProvisioningReturns(Returned(TimeoutResult(el)))
         /\ UNCHANGED attempt
    ELSE /\ attempt' = attempt + 1
         /\ pc' = "drive"
         /\ UNCHANGED <<oneDriveResult, result>>

\* entry: startTime, and the first loop test
forceOneDriveProvisioning ==
    /\ pc = "provision"
    /\ elapsed' = 0
    /\ plog' = <<>>
    /\ firstResp' = None
    /\ lastResp' = None
    /\ attempt' = 1
    /\ IF 1 <= pvOptions.retryAttempts
       THEN /\ pc' = "drive"
            /\ UNCHANGED <<oneDriveResult, result>>
       ELSE ProvisioningReturns(Returned(TimeoutResult(0)))
    /\ UNCHANGED <<config, issued, callState, options, shouldForceOneDrive, tokens,
                   user, net, audit, console, inCallback>>
    /\ UNCHANGED <<pvOptions, prev>>
    /\ UNCHANGED ledgerVars

\* one read of /users/{id}/drive, taking d seconds
driveRead(resp, d) ==
    /\ pc = "drive"
    /\ net' = Append(net, "drive")
    /\ plog' = Append(plog, ReadEvent(attempt))
    /\ firstResp' = IF attempt = 1 THEN Some(resp) ELSE firstResp
    /\ lastResp' = Some(resp)
    /\ elapsed' = elapsed + d
    /\ LET outcome == AttemptOutcome(resp, attempt, pvOptions.retryAttempts)
       IN CASE outcome = "ready" ->
                   /\ ProvisioningReturns(Returned(ReadyResult(elapsed')))
                   /\ UNCHANGED attempt
            [] outcome = "not_setup" ->
                   /\ ProvisioningReturns(Returned(NotSetupResult))
                   /\ UNCHANGED attempt
            [] outcome = "throw" ->
                   /\ ProvisioningReturns(ProvisioningCatch(elapsed'))
                   /\ UNCHANGED attempt
            [] outcome = "sleep" ->
                   /\ pc' = "sleep"
                   /\ UNCHANGED <<attempt, oneDriveResult, result>>
            [] OTHER -> LoopTail(elapsed')
    /\ UNCHANGED <<config, issued, callState, options, shouldForceOneDrive, tokens,
                   user, audit, console, inCallback>>
    /\ UNCHANGED <<pvOptions, prev>>
    /\ UNCHANGED ledgerVars

\* await new Promise(resolve => setTimeout(resolve, waitTime * 1000))
backoffSleep ==
    /\ pc = "sleep"
    /\ plog' = Append(plog, SleepEvent(WaitTime(attempt)))
    /\ elapsed' = elapsed + WaitTime(attempt)
    /\ LoopTail(elapsed')
    /\ UNCHANGED <<config, issued, callState, options, shouldForceOneDrive, tokens,
                   user, net, audit, console, inCallback>>
    /\ UNCHANGED <<pvOptions, firstResp, lastResp, prev>>
    /\ UNCHANGED ledgerVars

(***************************************************************************)
(* createAuthAuditEvent and the return of handleCallback.                  *)
(***************************************************************************)
AuthAuditEvent(u, forced, odr) ==
    [eventType |-> "sign_in",
     userId |-> u.id,
     tenantId |-> u.tenantId,
     success |-> TRUE,
     metadata |-> [oneDriveForced |-> forced,
                   oneDriveSuccess |-> IF odr = None THEN None ELSE Some(odr[1].success),
                   oneDriveTime |-> IF odr = None THEN None ELSE odr[1].provisioningTime]]

\* the members of the event that createAuthAuditEvent writes to the console
ConsoleLine(event) ==
    [type |-> event.eventType, user |-> event.userId, tenant |-> event.tenantId,
     success |-> event.success]

EmitAuditTwice(log, event) ==
    Append(Append(log, event), event)

\* one call of createAuthAuditEvent
EmitAudit(log, event) ==
    Append(log, event)

SignInResultAbortOnProvisioning(u, t, odr) ==
    IF odr # None /\ ~odr[1].success
    THEN AuthFailure(odr[1].errorCode[1])
    ELSE [success |-> TRUE, user |-> u.user, tokens |-> t.tokens, error |-> None]

\* return { success: true, user: user.user, tokens: tokens.tokens }
SignInResult(u, t, odr) ==
    [success |-> TRUE, user |-> u.user, tokens |-> t.tokens, error |-> None]

createAuthAuditEvent ==
    /\ pc = "audit"
    /\ LET event == AuthAuditEvent(user[1].user[1], shouldForceOneDrive[1], oneDriveResult)
       IN /\ audit' = EmitAudit(audit, event)
          /\ console' = Append(console, ConsoleLine(event))
    /\ result' = Some(SignInResult(user[1], tokens[1], oneDriveResult))
    /\ pc' = "returned"
    /\ UNCHANGED <<config, issued, callState, options, shouldForceOneDrive, tokens,
                   user, oneDriveResult, net, inCallback>>
    /\ UNCHANGED <<retrierVars, ledgerVars>>

\* what one retrier invocation did
Summary(first, odr, log) ==
    [first |-> first, status |-> odr.status, reads |-> NumReads(log),
     sleeps |-> NumSleeps(log)]

\* the caller has the AuthResult; the locals of the finished call are gone
callbackReturned ==
    /\ pc = "returned"
    /\ pc' = "idle"
    /\ prev' = IF oneDriveResult # None
               THEN Some(Summary(firstResp, oneDriveResult[1], plog))
               ELSE prev
    /\ callState' = None
    /\ options' = NoOptions
    /\ shouldForceOneDrive' = None
    /\ tokens' = None
    /\ user' = None
    /\ oneDriveResult' = None
    /\ result' = None
    /\ net' = <<>>
    /\ audit' = <<>>
    /\ console' = <<>>
    /\ inCallback' = FALSE
    /\ attempt' = 0
    /\ elapsed' = 0
    /\ plog' = <<>>
    /\ firstResp' = None
    /\ lastResp' = None
    /\ UNCHANGED <<config, issued, pvOptions>>
    /\ UNCHANGED ledgerVars

(***************************************************************************)
(* ContentLifecycleManager: the ledger.                                    *)
(***************************************************************************)
MaxSessions == 2        \* sessions opened in one run
MaxRecords == 2         \* records tracked in one run, over all sessions

Instants == {0, 1}      \* values of Date.now()
Randoms == {1}          \* values of Math.random().toString(36).substr(2, 9)
Tenants == {"T1", "T2"}

CleanupOrderUsersFirst == <<"file", "email", "chat", "user", "license", "team">>

CleanupOrder == <<"file", "email", "chat", "license", "user", "team">>
\* the six documented types, and one the type annotation does not allow
ResourceTypeArgs == {CleanupOrder[i] : i \in 1..Len(CleanupOrder)} \cup {"other"}

\* the resources the callers of LedgerSpec track: a user, a license assigned to
\* that user (as in demonstrateContentTracking), and one of an undocumented type
TrackArgs ==
    {[resourceType |-> "user", resourceId |-> "U1", parentResourceId |-> None],
     [resourceType |-> "license", resourceId |-> "L1", parentResourceId |-> Some("U1")],
     [resourceType |-> "other", resourceId |-> "X1", parentResourceId |-> None]}

EmptyMap == [k \in {} |-> k]
\* Map.set
MapSet(m, k, v) == [x \in DOMAIN m \cup {k} |-> IF x = k THEN v ELSE m[x]]

\* `demo-${Date.now()}-${Math.random()...}`
SessionIdOf(t, rnd) == <<"demo", t, rnd>>
\* a session id no call of startDemoSession produces
UnknownSessionId == <<"demo", -1, 0>>
SessionIdArgs == DOMAIN sessions \cup {UnknownSessionId}

TotalRecords(ss) ==
    LET RECURSIVE Sum(_)
        Sum(S) == IF S = {} THEN 0
                  ELSE LET k == CHOOSE x \in S : TRUE
                       IN Len(ss[k].resources) + Sum(S \ {k})
    IN Sum(DOMAIN ss)

(***************************************************************************)
(* The tracking file: JSON.stringify(Object.fromEntries(this.sessions)).   *)
(* A member whose value is undefined is not written.                       *)
(***************************************************************************)
StringifyRecord(r) ==
    IF r.parentResourceId = None
    THEN [id |-> r.id, tenantId |-> r.tenantId, demoSessionId |-> r.demoSessionId,
          resourceType |-> r.resourceType, resourceId |-> r.resourceId,
          graphApiEndpoint |-> r.graphApiEndpoint, displayName |-> r.displayName,
          createdAt |-> r.createdAt]
    ELSE [id |-> r.id, tenantId |-> r.tenantId, demoSessionId |-> r.demoSessionId,
          resourceType |-> r.resourceType, resourceId |-> r.resourceId,
          graphApiEndpoint |-> r.graphApiEndpoint, displayName |-> r.displayName,
          createdAt |-> r.createdAt, parentResourceId |-> r.parentResourceId[1]]

StringifySession(s) ==
    [sessionId |-> s.sessionId, tenantId |-> s.tenantId, startedAt |-> s.startedAt,
     status |-> s.status, totalResources |-> s.totalResources,
     cleanedResources |-> s.cleanedResources,
     resources |-> [i \in 1..Len(s.resources) |-> StringifyRecord(s.resources[i])]]

Stringify(ss) == [k \in DOMAIN ss |-> StringifySession(ss[k])]

ParseRecord(j) ==
    [id |-> j.id, tenantId |-> j.tenantId, demoSessionId |-> j.demoSessionId,
     resourceType |-> j.resourceType, resourceId |-> j.resourceId,
     parentResourceId |-> IF "parentResourceId" \in DOMAIN j
                          THEN Some(j.parentResourceId) ELSE None,
     graphApiEndpoint |-> j.graphApiEndpoint, displayName |-> j.displayName,
     createdAt |-> j.createdAt]

ParseSession(j) ==
    [sessionId |-> j.sessionId, tenantId |-> j.tenantId, startedAt |-> j.startedAt,
     status |-> j.status, totalResources |-> j.totalResources,
     cleanedResources |-> j.cleanedResources,
     resources |-> [i \in 1..Len(j.resources) |-> ParseRecord(j.resources[i])]]

\* loadTracking: the map built from the file, or the empty map without a file
LoadTracking(file) ==
    IF file = None THEN EmptyMap
    ELSE [k \in DOMAIN file[1] |-> ParseSession(file[1][k])]

\* saveTracking: writeFileSync either writes the whole map or throws, and the
\* catch block only logs
SaveTracking(ss, file, writeOk) ==
    IF writeOk THEN Some(Stringify(ss)) ELSE file

\* one call of saveTracking on the map ss
saveTracking(ss) ==
    store' = SaveTracking(ss, store, writable)

(***************************************************************************)
(* startDemoSession, trackResource, completeDemoSession.                   *)
(***************************************************************************)
NewSession(sid, tenantId, t) ==
    [sessionId |-> sid, tenantId |-> tenantId, startedAt |-> t, status |-> "active",
     totalResources |-> 0, cleanedResources |-> 0, resources |-> <<>>]

NewRecordFirstTenant(session, sid, type, rid, parent, t) ==
    [id |-> <<type, rid, t>>,
     tenantId |-> "T1",
     demoSessionId |-> sid,
     resourceType |-> type,
     resourceId |-> rid,
     parentResourceId |-> parent,
     graphApiEndpoint |-> <<"endpoint", type, rid>>,
     displayName |-> <<"name", rid>>,
     createdAt |-> t]

NewRecord(session, sid, type, rid, parent, t) ==
    [id |-> <<type, rid, t>>,
     tenantId |-> session.tenantId,
     demoSessionId |-> sid,
     resourceType |-> type,
     resourceId |-> rid,
     parentResourceId |-> parent,
     graphApiEndpoint |-> <<"endpoint", type, rid>>,
     displayName |-> <<"name", rid>>,
     createdAt |-> t]

\* how a ledger call ended: None when it returned, else the call and its error
Op(name, sid, threw) ==
    IF threw = None THEN None ELSE Some([op |-> name, error |-> threw[1]])

startDemoSession(tenantId, rnd) ==
    /\ lpc = "idle"
    /\ Cardinality(DOMAIN sessions) < MaxSessions
    /\ LET sid == SessionIdOf(now, rnd)
       IN /\ sessions' = MapSet(sessions, sid, NewSession(sid, tenantId, now))
          /\ lastOp' = (Op("startDemoSession", sid, None))
    /\ saveTracking(sessions')
    /\ UNCHANGED <<now, lpc, cleanup, writable>>
    /\ UNCHANGED <<authVars, retrierVars>>

TrackCreatingSession(ss, sid, type, rid, parent, t) ==
    IF sid \notin DOMAIN ss
    THEN [threw |-> None,
          sessions |-> MapSet(ss, sid, NewSession(sid, "T1", t)),
          saves |-> TRUE]
    ELSE LET session == ss[sid]
             resources == Append(session.resources,
                                 NewRecord(session, sid, type, rid, parent, t))
         IN [threw |-> None,
             sessions |-> [ss EXCEPT ![sid] =
                              [session EXCEPT !.resources = resources,
                                              !.totalResources = Len(resources)]],
             saves |-> TRUE]

TrackPrepending(ss, sid, type, rid, parent, t) ==
    IF sid \notin DOMAIN ss
    THEN [threw |-> Some("SessionNotFound"), sessions |-> ss, saves |-> FALSE]
    ELSE LET session == ss[sid]
             resources == <<NewRecord(session, sid, type, rid, parent, t)>>
                          \o session.resources
         IN [threw |-> None,
             sessions |-> [ss EXCEPT ![sid] =
                              [session EXCEPT !.resources = resources,
                                              !.totalResources = Len(resources)]],
             saves |-> TRUE]

TrackWithoutRecount(ss, sid, type, rid, parent, t) ==
    IF sid \notin DOMAIN ss
    THEN [threw |-> Some("SessionNotFound"), sessions |-> ss, saves |-> FALSE]
    ELSE LET session == ss[sid]
             resources == Append(session.resources,
                                 NewRecord(session, sid, type, rid, parent, t))
         IN [threw |-> None,
             sessions |-> [ss EXCEPT ![sid] = [session EXCEPT !.resources = resources]],
             saves |-> TRUE]

\* trackResource up to its call of saveTracking: what it throws, the map it
\* leaves, and whether saveTracking is reached
Track(ss, sid, type, rid, parent, t) ==
    IF sid \notin DOMAIN ss
    THEN [threw |-> Some("SessionNotFound"), sessions |-> ss, saves |-> FALSE]
    ELSE LET session == ss[sid]
             resources == Append(session.resources,
                                 NewRecord(session, sid, type, rid, parent, t))
         IN [threw |-> None,
             sessions |-> [ss EXCEPT ![sid] =
                              [session EXCEPT !.resources = resources,
                                              !.totalResources = Len(resources)]],
             saves |-> TRUE]

trackResource(sid, type, rid, parent) ==
    /\ lpc = "idle"
    /\ sid \in DOMAIN sessions => TotalRecords(sessions) < MaxRecords
    /\ LET r == Track(sessions, sid, type, rid, parent, now)
       IN /\ sessions' = r.sessions
          /\ lastOp' = (Op("trackResource", sid, r.threw))
          /\ IF r.saves THEN saveTracking(sessions') ELSE UNCHANGED store
    /\ UNCHANGED <<now, lpc, cleanup, writable>>
    /\ UNCHANGED <<authVars, retrierVars>>

\* getSessionResources: the list itself, or an empty one for an unknown id
getSessionResources(ss, sid) ==
    IF sid \in DOMAIN ss THEN ss[sid].resources ELSE <<>>

completeDemoSession(sid) ==
    /\ lpc = "idle"
    /\ IF sid \in DOMAIN sessions
       THEN /\ sessions' = [sessions EXCEPT ![sid].status = "completed"]
            /\ saveTracking(sessions')
       ELSE UNCHANGED <<sessions, store>>
    /\ lastOp' = (Op("completeDemoSession", sid, None))
    /\ UNCHANGED <<now, lpc, cleanup, writable>>
    /\ UNCHANGED <<authVars, retrierVars>>

\* the clock moves between two calls
tick ==
    /\ lpc = "idle"
    /\ now + 1 \in Instants
    /\ now' = now + 1
    /\ UNCHANGED <<sessions, store, lpc, lastOp, cleanup, writable>>
    /\ UNCHANGED <<authVars, retrierVars>>

(***************************************************************************)
(* generateCleanupPlan.                                                    *)
(***************************************************************************)
OrderTypes == {CleanupOrder[i] : i \in 1..Len(CleanupOrder)}

RECURSIVE Reverse(_)
Reverse(q) == IF q = <<>> THEN <<>> ELSE Append(Reverse(Tail(q)), Head(q))

OfTypeNewestFirst(rs, type) == Reverse(SelectSeq(rs, LAMBDA r : r.resourceType = type))

\* the group of a type: its records, pushed in the order the session lists them
OfType(rs, type) == SelectSeq(rs, LAMBDA r : r.resourceType = type)

\* one warning per type outside the order, at its first record
RECURSIVE UnknownTypeWarnings(_, _)
UnknownTypeWarnings(rs, i) ==
    IF i > Len(rs) THEN <<>>
    ELSE LET type == rs[i].resourceType
             first == type \notin OrderTypes
                      /\ \A j \in 1..(i - 1) : rs[j].resourceType # type
         IN (IF first THEN <<<<"Unknown resource type", type>>>> ELSE <<>>)
            \o UnknownTypeWarnings(rs, i + 1)

OrphanWarning == <<"Users found without tracked licenses">>

GenerateCleanupPlanKnownTypesOnly(session) ==
    LET rs == session.resources
        groups == [type \in OrderTypes |-> OfType(rs, type)]
    IN [order |-> CleanupOrder,
        resources |-> groups,
        warnings |-> (IF Len(groups["user"]) > 0 /\ Len(groups["license"]) = 0
                      THEN <<OrphanWarning>> ELSE <<>>)]

GenerateCleanupPlanWarnsOnAnyUser(session) ==
    LET rs == session.resources
        types == OrderTypes \cup {rs[i].resourceType : i \in 1..Len(rs)}
        groups == [type \in types |-> OfType(rs, type)]
    IN [order |-> CleanupOrder,
        resources |-> groups,
        warnings |-> UnknownTypeWarnings(rs, 1)
                     \o (IF Len(groups["user"]) > 0
                         THEN <<OrphanWarning>> ELSE <<>>)]

GenerateCleanupPlan(session) ==
    LET rs == session.resources
        types == OrderTypes \cup {rs[i].resourceType : i \in 1..Len(rs)}
        groups == [type \in types |-> OfType(rs, type)]
    IN [order |-> CleanupOrder,
        resources |-> groups,
        warnings |-> UnknownTypeWarnings(rs, 1)
                     \o (IF Len(groups["user"]) > 0 /\ Len(groups["license"]) = 0
                         THEN <<OrphanWarning>> ELSE <<>>)]

RECURSIVE PlanQueueTwice(_, _)
PlanQueueTwice(plan, i) ==
    IF i > Len(plan.order) THEN <<>>
    ELSE plan.resources[plan.order[i]] \o plan.resources[plan.order[i]]
         \o PlanQueueTwice(plan, i + 1)

RECURSIVE PlanQueueBackwards(_, _)
PlanQueueBackwards(plan, i) ==
    IF i > Len(plan.order) THEN <<>>
    ELSE PlanQueueBackwards(plan, i + 1) \o plan.resources[plan.order[i]]

\* the items the two nested loops of executeCleanup visit, in the order visited
RECURSIVE PlanQueue(_, _)
PlanQueue(plan, i) ==
    IF i > Len(plan.order) THEN <<>>
    ELSE plan.resources[plan.order[i]] \o PlanQueue(plan, i + 1)

(***************************************************************************)
(* executeCleanup: the part before the loops, one loop pass, the part      *)
(* after the loops.  The function holds no await: no other call runs       *)
(* between its steps.                                                      *)
(***************************************************************************)
Credentials == {"mock-token"}

executeCleanup(sid, accessToken, dryRun) ==
    /\ lpc = "idle"
    /\ IF sid \notin DOMAIN sessions
       THEN /\ lastOp' = (Op("executeCleanup", sid, Some("SessionNotFound")))
            /\ UNCHANGED <<sessions, store, lpc, cleanup>>
       ELSE /\ LET plan == GenerateCleanupPlan(sessions[sid])
               IN cleanup' = Some([sessionId |-> sid,
                                   accessToken |-> accessToken,
                                   dryRun |-> dryRun,
                                   plan |-> plan,
                                   queue |-> PlanQueue(plan, 1),
                                   cleanedCount |-> 0,
                                   processed |-> <<>>,
                                   errors |-> <<>>,
                                   deletes |-> <<>>])
            /\ sessions' = [sessions EXCEPT ![sid].status = "cleaning"]
            /\ saveTracking(sessions')
            /\ lpc' = "cleaning"
            /\ UNCHANGED lastOp
    /\ UNCHANGED <<now, writable>>
    /\ UNCHANGED <<authVars, retrierVars>>

ItemBodyDeleting(item, dryRun, accessToken) ==
    [console |-> <<(IF dryRun THEN "DRY RUN" ELSE "LIVE"), item.resourceType,
                   item.displayName>>,
     requests |-> <<[method |-> "DELETE", url |-> item.graphApiEndpoint,
                     authorization |-> accessToken]>>]

\* the try block of one loop pass: the line it writes and the provider requests
\* it issues (in both branches none: the DELETE request is a comment)
ItemBody(item, dryRun, accessToken) ==
    [console |-> <<(IF dryRun THEN "DRY RUN" ELSE "LIVE"), item.resourceType,
                   item.displayName>>,
     requests |-> <<>>]

ItemNoCatch(failed) ==
    [aborts |-> failed, counted |-> ~failed]

\* try/catch of one loop pass: a throw inside the try block skips cleanedCount++
\* and is only logged
ItemCatch(failed) ==
    [aborts |-> FALSE, counted |-> ~failed]

\* one pass of the inner loop; `failed` tells whether a statement of the try
\* block threw (e.g. formatting a displayName that has no string conversion)
cleanupItem(failed) ==
    /\ lpc = "cleaning"
    /\ cleanup[1].queue # <<>>
    /\ LET c == cleanup[1]
           item == Head(c.queue)
           body == ItemBody(item, c.dryRun, c.accessToken)
           r == ItemCatch(failed)
       IN IF r.aborts
          THEN /\ cleanup' = None
               /\ lpc' = "idle"
               /\ lastOp' = (Op("executeCleanup", c.sessionId, Some("ItemFailure")))
          ELSE /\ cleanup' =
                      Some([c EXCEPT
                               !.queue = Tail(c.queue),
                               !.processed = Append(c.processed, item.id),
                               !.deletes = c.deletes \o
                                           (IF failed THEN <<>> ELSE body.requests),
                               !.errors = IF failed THEN Append(c.errors, item.id)
                                          ELSE c.errors,
                               !.cleanedCount = IF r.counted THEN c.cleanedCount + 1
                                                ELSE c.cleanedCount])
               /\ UNCHANGED <<lpc, lastOp>>
    /\ UNCHANGED <<sessions, store, now, writable>>
    /\ UNCHANGED <<authVars, retrierVars>>

cleanupFinish ==
    /\ lpc = "cleaning"
    /\ cleanup[1].queue = <<>>
    /\ LET c == cleanup[1]
       IN /\ sessions' = [sessions EXCEPT
                             ![c.sessionId].cleanedResources = c.cleanedCount,
                             ![c.sessionId].status =
                                 IF c.dryRun THEN "active" ELSE "cleaned"]
          /\ lastOp' = (Op("executeCleanup", c.sessionId, None))
    /\ saveTracking(sessions')
    /\ lpc' = "idle"
    /\ cleanup' = None
    /\ UNCHANGED <<now, writable>>
    /\ UNCHANGED <<authVars, retrierVars>>

(***************************************************************************)
(* Initial states.                                                         *)
(***************************************************************************)
AuthIdle ==
    /\ issued = None
    /\ callState = None
    /\ options = NoOptions
    /\ shouldForceOneDrive = None
    /\ tokens = None
    /\ user = None
    /\ oneDriveResult = None
    /\ result = None
    /\ net = <<>>
    /\ audit = <<>>
    /\ console = <<>>
    /\ inCallback = FALSE
    /\ attempt = 0
    /\ elapsed = 0
    /\ plog = <<>>
    /\ firstResp = None
    /\ lastResp = None
    /\ prev = None

\* new ContentLifecycleManager(path) where no tracking file exists yet
LedgerConstructed ==
    /\ sessions = EmptyMap
    /\ store = None
    /\ now = 0
    /\ lpc = "idle"
    /\ lastOp = None
    /\ cleanup = None
    /\ writable = TRUE

Init ==
    /\ config \in [forceProvisioning : BOOLEAN, maxWaitTime : MaxWaitTimes,
                   retryAttempts : 0..CallbackAttempts]
    /\ pc = "idle"
    /\ pvOptions = [maxWaitTime |-> config.maxWaitTime,
                    retryAttempts |-> config.retryAttempts]
    /\ AuthIdle
    /\ LedgerConstructed

Next ==
    \/ \E optForce \in {None, Some(TRUE), Some(FALSE)} : initiateAuthFlow(optForce)
    \/ \E st \in StateTexts, opts \in OptionsArgs : handleCallback(st, opts)
    \/ \E resp \in TokenResponses : exchangeCodeForTokens(resp)
    \/ \E resp \in ProfileResponses : getUserInfoProfile(resp)
    \/ \E resp \in OrganizationResponses : getUserInfoOrganization(resp)
    \/ \E resp \in LicenseResponses : getUserInfoLicenses(resp)
    \/ forceOneDriveProvisioning
    \/ \E resp \in DriveResponses, d \in FetchLatencies : driveRead(resp, d)
    \/ backoffSleep
    \/ createAuthAuditEvent
    \/ callbackReturned

Spec == Init /\ [][Next]_vars

\* forceOneDriveProvisioning(userId, accessToken, options) invoked once on its own
RetrierInit ==
    /\ config = [forceProvisioning |-> TRUE, maxWaitTime |-> LongWait,
                 retryAttempts |-> MaxAttempts]
    /\ pvOptions \in [maxWaitTime : MaxWaitTimes, retryAttempts : 0..MaxAttempts]
    /\ pc = "provision"
    /\ AuthIdle
    /\ LedgerConstructed

RetrierNext ==
    \/ forceOneDriveProvisioning
    \/ \E resp \in DriveResponses, d \in FetchLatencies : driveRead(resp, d)
    \/ backoffSleep

RetrierSpec == RetrierInit /\ [][RetrierNext]_vars

\* every awaited read settles and every timer fires
RetrierFairSpec == RetrierSpec /\ WF_vars(RetrierNext)

\* the ledger alone: the sign-in service is constructed and idle
LedgerInit ==
    /\ config = [forceProvisioning |-> TRUE, maxWaitTime |-> LongWait,
                 retryAttempts |-> MaxAttempts]
    /\ pvOptions = [maxWaitTime |-> LongWait, retryAttempts |-> MaxAttempts]
    /\ pc = "idle"
    /\ AuthIdle
    /\ sessions = EmptyMap
    /\ store = None
    /\ now = 0
    /\ lpc = "idle"
    /\ lastOp = None
    /\ cleanup = None
    /\ writable \in BOOLEAN

LedgerNext ==
    \/ \E tenantId \in Tenants, rnd \in Randoms :
           startDemoSession(tenantId, rnd)
    \/ \E sid \in SessionIdArgs, a \in TrackArgs :
           trackResource(sid, a.resourceType, a.resourceId, a.parentResourceId)
    \/ \E sid \in SessionIdArgs, accessToken \in Credentials, dryRun \in BOOLEAN :
           executeCleanup(sid, accessToken, dryRun)
    \/ \E failed \in BOOLEAN : cleanupItem(failed)
    \/ cleanupFinish
    \/ \E sid \in SessionIdArgs : completeDemoSession(sid)
    \/ tick

LedgerSpec == LedgerInit /\ [][LedgerNext]_vars

\* the ledger over a tracking file that takes every write
DurableLedgerInit == LedgerInit /\ writable

DurableLedgerSpec == DurableLedgerInit /\ [][LedgerNext]_vars

(***************************************************************************)
(* Two managers over one tracking file, their calls one after the other.   *)
(* `sessions` is the map of the first; the second is built when it is      *)
(* needed (createForPOC builds a manager per call), so that its map is     *)
(* what loadTracking reads at that moment.                                 *)
(***************************************************************************)
\* ContentLifecycleManager.createForPOC().startDemoSession(tenantId) by the
\* second manager: loadTracking, sessions.set, saveTracking
otherManagerStartDemoSession(tenantId, rnd) ==
    /\ lpc = "idle"
    /\ LET loaded == LoadTracking(store)
           sid == SessionIdOf(now, rnd)
       IN /\ Cardinality(DOMAIN loaded) < MaxSessions
          /\ store' = SaveTracking(MapSet(loaded, sid, NewSession(sid, tenantId, now)),
                                   store, writable)
    /\ UNCHANGED <<sessions, now, lpc, lastOp, cleanup, writable>>
    /\ UNCHANGED <<authVars, retrierVars>>

SharedStoreNext ==
    \/ \E tenantId \in Tenants, rnd \in Randoms :
           startDemoSession(tenantId, rnd)
    \/ \E tenantId \in Tenants, rnd \in Randoms :
           otherManagerStartDemoSession(tenantId, rnd)
    \/ \E sid \in SessionIdArgs, a \in TrackArgs :
           trackResource(sid, a.resourceType, a.resourceId, a.parentResourceId)
    \/ \E sid \in SessionIdArgs : completeDemoSession(sid)
    \/ tick

SharedStoreSpec == DurableLedgerInit /\ [][SharedStoreNext]_vars

(***************************************************************************)
(* The planner and the executor over one session holding any resources.    *)
(***************************************************************************)
MaxPlanRecords == 3     \* records of the session that is planned and cleaned

PlanSessionId == SessionIdOf(0, 1)

\* the ledger after startDemoSession("T1") and one trackResource call per type
\* of `types`, the i-th for resource i
RECURSIVE TrackAll(_, _, _)
TrackAll(ss, types, i) ==
    IF i > Len(types) THEN ss
    ELSE TrackAll(Track(ss, PlanSessionId, types[i], i, None, 0).sessions, types, i + 1)

PlanLedger(types) ==
    TrackAll(MapSet(EmptyMap, PlanSessionId, NewSession(PlanSessionId, "T1", 0)),
             types, 1)

PlanInit ==
    /\ config = [forceProvisioning |-> TRUE, maxWaitTime |-> LongWait,
                 retryAttempts |-> MaxAttempts]
    /\ pvOptions = [maxWaitTime |-> LongWait, retryAttempts |-> MaxAttempts]
    /\ pc = "idle"
    /\ AuthIdle
    /\ \E n \in 0..MaxPlanRecords :
          \E types \in [1..n -> ResourceTypeArgs] : sessions = PlanLedger(types)
    /\ store = Some(Stringify(sessions))
    /\ now = 0
    /\ lpc = "idle"
    /\ lastOp = None
    /\ cleanup = None
    /\ writable = TRUE

PlanNext ==
    \/ \E sid \in DOMAIN sessions, accessToken \in Credentials, dryRun \in BOOLEAN :
           executeCleanup(sid, accessToken, dryRun)
    \/ \E failed \in BOOLEAN : cleanupItem(failed)
    \/ cleanupFinish

PlanSpec == PlanInit /\ [][PlanNext]_vars

\* executeCleanup holds no await: once called, its loop passes and its last
\* statements run without anything in between
PlanFairSpec ==
    PlanSpec /\ WF_vars(\E failed \in BOOLEAN : cleanupItem(failed))
             /\ WF_vars(cleanupFinish)

(***************************************************************************)
(* Properties of handleCallback (checked under Spec).                      *)
(***************************************************************************)
StagesSucceeded ==
    /\ tokens # None /\ tokens[1].success
    /\ user # None /\ user[1].success

RetrierInvoked ==
    pc \in {"provision", "drive", "sleep"} \/ oneDriveResult # None

\* the preference the three sources give, read off the arguments
ExpectedPreference ==
    IF options.forceOneDriveProvisioning # None THEN options.forceOneDriveProvisioning[1]
    ELSE IF callState = Some("json_true") THEN TRUE
    ELSE IF callState = Some("json_false") THEN FALSE
    ELSE config.forceProvisioning

\* C1: when the token exchange and the enrichment both succeeded, the call does
\* not raise and what it returns is a success carrying the principal and the
\* tokens, whichever outcome the retrier produced.
C1_SignInSurvivesProvisioning ==
    StagesSucceeded =>
        /\ pc # "raised"
        /\ pc = "returned" =>
              /\ result # None
              /\ result[1].success
              /\ result[1].user = Some(AuthenticatedUser)
              /\ result[1].tokens = Some(TokenSet)
              /\ result[1].error = None

C1_Witness ==
    /\ pc = "returned"
    /\ StagesSucceeded
    /\ oneDriveResult # None
    /\ oneDriveResult[1].status = "ERROR"
    /\ result[1].success

C3_RoundTripRecoversPreference ==
    (/\ pc # "idle"
     /\ issued # None
     /\ callState = Some(issued[1].state)
     /\ options.forceOneDriveProvisioning = None)
    => shouldForceOneDrive = Some(issued[1].forceOneDriveProvisioning)

\* C4: a failed exchange or a failed enrichment is returned as it is, and no
\* later stage has run: no enrichment read after a failed exchange, and after
\* either failure no drive read and no audit event.
C4_StageFailureShortCircuits ==
    pc = "returned" =>
        /\ (tokens # None /\ ~tokens[1].success) =>
               /\ result = tokens
               /\ net = <<"token">>
               /\ user = None
               /\ ~RetrierInvoked
               /\ audit = <<>> /\ console = <<>>
        /\ (user # None /\ ~user[1].success) =>
               /\ result = user
               /\ \A i \in 1..Len(net) : net[i] # "drive"
               /\ ~RetrierInvoked
               /\ audit = <<>> /\ console = <<>>

C4_Witness ==
    /\ pc = "returned"
    /\ tokens = Some(AuthFailure("invalid_grant"))
    /\ result = tokens
    /\ shouldForceOneDrive = Some(TRUE)

\* C5: a call that returned success has built exactly one sign_in event, built
\* once the retrier had finished or been skipped, whose metadata carries the
\* retrier's success flag and time; a call that returned failure has built
\* none, and no event exists before the call returns.
C5_OneAuditEventPerSuccess ==
    /\ audit # <<>> => pc = "returned"
    /\ pc = "returned" =>
          IF result[1].success
          THEN /\ Len(audit) = 1
               /\ audit[1].eventType = "sign_in"
               /\ audit[1].success
               /\ (oneDriveResult # None) =
                      (shouldForceOneDrive[1] /\ ~options.skipOneDriveProvisioning)
               /\ audit[1].metadata.oneDriveSuccess =
                      (IF oneDriveResult = None THEN None
                       ELSE Some(oneDriveResult[1].status = "READY"))
               /\ audit[1].metadata.oneDriveTime =
                      (IF oneDriveResult = None THEN None
                       ELSE oneDriveResult[1].provisioningTime)
          ELSE audit = <<>>

C5_Witness ==
    /\ pc = "returned"
    /\ result[1].success
    /\ Len(audit) = 1
    /\ audit[1].metadata.oneDriveSuccess = Some(FALSE)
    /\ oneDriveResult[1].status = "PROVISIONING"

\* C6: the resolved preference is the override when given, else the one in the
\* state, else the configured default; and in a call that got past both stages
\* the retrier is invoked exactly when that preference is true and the caller
\* did not ask to skip it (it is never invoked in a call that did not).
C6_RetrierRunsIffPreferred ==
    pc # "idle" =>
        /\ shouldForceOneDrive # None => shouldForceOneDrive[1] = ExpectedPreference
        /\ RetrierInvoked =
              (/\ user # None
               /\ user[1].success
               /\ ExpectedPreference
               /\ ~options.skipOneDriveProvisioning)

C6_Witness ==
    /\ pc = "provision"
    /\ options.forceOneDriveProvisioning = None
    /\ callState = Some("json_plain")
    /\ config.forceProvisioning

(***************************************************************************)
(* Properties of forceOneDriveProvisioning.                                *)
(***************************************************************************)
\* C7 (RetrierSpec): forceOneDriveProvisioning never raises: an invocation that
\* is over has returned one of the four outcomes, and when its last read ended
\* in a transport fault or a provider error the outcome is ERROR or the
\* PROVISIONING time-out.
C7_RetrierNeverRaises ==
    /\ pc # "raised"
    /\ pc = "provisioned" =>
          /\ oneDriveResult # None
          /\ oneDriveResult[1].status \in {"READY", "NOT_SETUP", "PROVISIONING", "ERROR"}
          /\ lastResp \in {Some("fault"), Some("error")} =>
                 oneDriveResult[1].status \in {"ERROR", "PROVISIONING"}

C7_Witness ==
    /\ pc = "provisioned"
    /\ lastResp = Some("fault")
    /\ oneDriveResult[1].status = "ERROR"
    /\ NumReads(plog) > 1

\* C8 (Spec): an invocation whose first read was answered 2xx returns READY after
\* that one read and no sleep, and so does the invocation before it.
ReadyAtOnce(summary) ==
    summary.first = Some("ok") =>
        /\ summary.status = "READY"
        /\ summary.reads = 1
        /\ summary.sleeps = 0

C8_ReadyIsIdempotent ==
    /\ oneDriveResult # None => ReadyAtOnce(Summary(firstResp, oneDriveResult[1], plog))
    /\ prev # None => ReadyAtOnce(prev[1])

C8_Witness ==
    /\ prev # None
    /\ prev[1].first = Some("ok")
    /\ prev[1].status = "READY"
    /\ oneDriveResult # None
    /\ firstResp = Some("ok")
    /\ oneDriveResult[1].status = "READY"
    /\ NumReads(plog) = 1

(***************************************************************************)
(* Properties of forceOneDriveProvisioning (checked under RetrierSpec).    *)
(***************************************************************************)
\* the invocation is over and its caller has the outcome
RetrierDone == pc = "provisioned" /\ oneDriveResult # None
\* the sleeps of the log, in the order taken
SleepsOf(log) == SelectSeq(log, LAMBDA e : e.ev = "sleep")
\* min(n * 10, 30)
Backoff(n) == IF n * 10 < 30 THEN n * 10 ELSE 30

\* C22: between two consecutive reads of the drive there is a backoff sleep,
\* whether the earlier read ended in a non-2xx response or in a thrown fault.
C22_SleepBetweenReads ==
    \A i \in 1..(Len(plog) - 1) : ~(plog[i].ev = "read" /\ plog[i + 1].ev = "read")

\* C23 as stated: when the final allowed attempt ends in a thrown fault, or in
\* a non-2xx response other than the first-attempt NOT_SETUP case, the outcome
\* is ERROR.
C23_FinalAttemptFailureIsError ==
    (/\ RetrierDone
     /\ NumReads(plog) = pvOptions.retryAttempts
     /\ \/ lastResp = Some("fault")
        \/ lastResp = Some("error")
        \/ lastResp = Some("not_setup") /\ pvOptions.retryAttempts > 1)
    => oneDriveResult[1].status = "ERROR"

\* C23 as amended: when the final allowed attempt ends in a thrown fault the
\* outcome is ERROR; when it ends in a non-2xx response other than the
\* first-attempt NOT_SETUP case the outcome is the PROVISIONING time-out.
C23_FinalFaultIsErrorFinalResponseIsTimeout ==
    (RetrierDone /\ NumReads(plog) = pvOptions.retryAttempts)
    => /\ lastResp = Some("fault") => oneDriveResult[1].status = "ERROR"
       /\ (\/ lastResp = Some("error")
           \/ lastResp = Some("not_setup") /\ pvOptions.retryAttempts > 1)
          => oneDriveResult[1].status = "PROVISIONING"

C23_Witness ==
    /\ RetrierDone
    /\ NumReads(plog) = pvOptions.retryAttempts
    /\ pvOptions.retryAttempts = 3
    /\ lastResp = Some("error")
    /\ oneDriveResult[1].status = "PROVISIONING"

\* C24: no backoff sleep starts at a moment when the elapsed time already
\* exceeds maxWaitTime.
C24_NoSleepPastBudget ==
    pc = "sleep" => ~(elapsed > pvOptions.maxWaitTime)

\* C25: the sleep after attempt n lasts min(n * 10, 30) seconds: 10, 20, 30,
\* 30, 30 after attempts 1..5; the sleeps of an invocation never decrease and
\* never exceed 30, and no sleep follows the final allowed attempt.
C25_BackoffSequence ==
    /\ \A i \in 1..Len(plog) :
          plog[i].ev = "sleep"
          => /\ i > 1
             /\ plog[i - 1].ev = "read"
             /\ plog[i - 1].n < pvOptions.retryAttempts
             /\ plog[i].n = Backoff(plog[i - 1].n)
             /\ plog[i - 1].n <= 5 => plog[i].n = <<10, 20, 30, 30, 30>>[plog[i - 1].n]
    /\ LET sleeps == SleepsOf(plog)
       IN \A i \in 1..Len(sleeps) :
              /\ sleeps[i].n <= 30
              /\ i < Len(sleeps) => sleeps[i].n <= sleeps[i + 1].n

C25_Witness ==
    /\ NumReads(plog) = 6
    /\ SleepsOf(plog) = <<SleepEvent(10), SleepEvent(20), SleepEvent(30),
                          SleepEvent(30), SleepEvent(30)>>

\* C26: a 2xx answer to a read, on whatever attempt, ends the invocation with
\* READY: that read is the last entry of its log.
C26_ReadyEndsLoop ==
    lastResp = Some("ok")
    => /\ RetrierDone
       /\ oneDriveResult[1].status = "READY"
       /\ plog[Len(plog)].ev = "read"

C26_Witness ==
    /\ RetrierDone
    /\ lastResp = Some("ok")
    /\ NumReads(plog) = 3
    /\ NumSleeps(plog) = 2

\* C27: the not-set-up-yet answer yields NOT_SETUP, flagged as the new-user
\* scenario, exactly when it answers the first read, and then at once, with no
\* sleep; when it answers a later read the invocation goes on to the sleep.
C27_NotSetupOnlyOnFirstAttempt ==
    /\ (oneDriveResult # None /\ oneDriveResult[1].status = "NOT_SETUP")
       => /\ plog = <<ReadEvent(1)>>
          /\ firstResp = Some("not_setup")
          /\ oneDriveResult[1].isNewUserScenario = Some(TRUE)
    /\ firstResp = Some("not_setup")
       => /\ RetrierDone
          /\ oneDriveResult[1].status = "NOT_SETUP"
    /\ (/\ lastResp = Some("not_setup")
        /\ plog[Len(plog)] = ReadEvent(attempt)
        /\ 1 < attempt /\ attempt < pvOptions.retryAttempts)
       => pc = "sleep"

C27_Witness ==
    /\ RetrierDone
    /\ oneDriveResult[1].status = "NOT_SETUP"
    /\ pvOptions.retryAttempts = 3

\* C28 as stated: an invocation makes at most retryAttempts reads, and one that
\* ends without READY and without the first-attempt NOT_SETUP returns the
\* PROVISIONING time-out.
C28_ExhaustionIsTimeout ==
    /\ NumReads(plog) <= pvOptions.retryAttempts
    /\ (RetrierDone /\ oneDriveResult[1].status \notin {"READY", "NOT_SETUP"})
       => oneDriveResult[1].status = "PROVISIONING"

\* C28 as amended: every invocation ends, after at most retryAttempts reads; one
\* that ends without READY and without the first-attempt NOT_SETUP returns the
\* PROVISIONING time-out (with retryAttempts 0 after no read at all), unless
\* its final allowed attempt ended in a thrown fault, when it returns ERROR.
C28_TerminatesWithTimeoutOrFinalFault ==
    /\ [](NumReads(plog) <= pvOptions.retryAttempts)
    /\ <>(pc = "provisioned")
    /\ []((RetrierDone /\ oneDriveResult[1].status \notin {"READY", "NOT_SETUP"})
          => oneDriveResult[1].status =
                 (IF lastResp = Some("fault") /\ NumReads(plog) = pvOptions.retryAttempts
                  THEN "ERROR" ELSE "PROVISIONING"))
    /\ []((RetrierDone /\ pvOptions.retryAttempts = 0)
          => plog = <<>> /\ oneDriveResult[1].status = "PROVISIONING")

C28_Witness ==
    /\ RetrierDone
    /\ oneDriveResult[1].status = "PROVISIONING"
    /\ NumReads(plog) = 2
    /\ pvOptions.retryAttempts = 4

\* C29: the outcome of an invocation is one of READY, NOT_SETUP, PROVISIONING
\* and ERROR, and whichever it is carries the elapsed seconds; READY carries
\* the drive URL.
C29_OutcomeFullyPopulated ==
    RetrierDone
    => /\ oneDriveResult[1].status \in {"READY", "NOT_SETUP", "PROVISIONING", "ERROR"}
       /\ oneDriveResult[1].provisioningTime # None
       /\ oneDriveResult[1].status = "READY" => oneDriveResult[1].driveUrl # None

(***************************************************************************)
(* Properties of the ledger (checked under LedgerSpec).                    *)
(***************************************************************************)
TrackThrew == Some([op |-> "trackResource", error |-> "SessionNotFound"])

\* C9: a trackResource call on a session id that is not in the ledger throws
\* SessionNotFound and changes neither the map of sessions nor the tracking file.
C9_TrackUnknownSessionThrows ==
    [][\A sid \in SessionIdArgs, a \in TrackArgs :
          (/\ sid \notin DOMAIN sessions
           /\ trackResource(sid, a.resourceType, a.resourceId, a.parentResourceId))
          => /\ lastOp' = TrackThrew
             /\ UNCHANGED <<sessions, store>>]_vars

C9_Witness ==
    /\ lastOp = TrackThrew
    /\ sessions # EmptyMap
    /\ lpc = "idle"

\* C10: whenever no ledger call is running, the tracking file holds exactly the
\* in-memory ledger, also when the write to the file fails.
C10_StoreHoldsLedger ==
    lpc = "idle" => LoadTracking(store) = sessions

\* the status changes of the DemoSession life cycle
LifecycleSteps ==
    {<<"active", "cleaning">>, <<"cleaning", "active">>, <<"cleaning", "cleaned">>,
     <<"active", "completed">>}

\* C11: over any sequence of startDemoSession, trackResource, executeCleanup
\* and completeDemoSession calls, the status of a session changes only along
\* active -> cleaning, cleaning -> active, cleaning -> cleaned and
\* active -> completed, so completed and cleaned are never left.  (A step of
\* startDemoSession that reuses a session id replaces the session; it is not
\* counted as a change of status here.)
C11_StatusFollowsLifecycle ==
    [][\A sid \in DOMAIN sessions :
          (/\ ~ \E tenantId \in Tenants, rnd \in Randoms : startDemoSession(tenantId, rnd)
           /\ sessions'[sid].status # sessions[sid].status)
          => <<sessions[sid].status, sessions'[sid].status>> \in LifecycleSteps]_vars

\* C12: a trackResource call on a session whose status is completed appends no
\* record to it.
C12_NoTrackingAfterCompleted ==
    [][\A sid \in DOMAIN sessions, a \in TrackArgs :
          (/\ sessions[sid].status = "completed"
           /\ trackResource(sid, a.resourceType, a.resourceId, a.parentResourceId))
          => sessions'[sid].resources = sessions[sid].resources]_vars

\* C21: a startDemoSession call adds exactly one session to the ledger, under
\* an id no session of the ledger had; the new session is active with
\* totalResources 0, cleanedResources 0 and no records, and every session the
\* ledger already held is left as it was.
C21_OpenAddsOneFreshSession ==
    [][(\E tenantId \in Tenants, rnd \in Randoms : startDemoSession(tenantId, rnd))
       => LET added == DOMAIN sessions' \ DOMAIN sessions
          IN /\ Cardinality(added) = 1
             /\ \A sid \in added :
                   /\ sessions'[sid].status = "active"
                   /\ sessions'[sid].totalResources = 0
                   /\ sessions'[sid].cleanedResources = 0
                   /\ sessions'[sid].resources = <<>>
             /\ \A sid \in DOMAIN sessions :
                   sid \in DOMAIN sessions' /\ sessions'[sid] = sessions[sid]]_vars

\* C30: in every state of the ledger the totalResources of each session is the
\* number of records in its resources.
C30_TotalResourcesIsRecordCount ==
    \A sid \in DOMAIN sessions :
        sessions[sid].totalResources = Len(sessions[sid].resources)

C30_Witness ==
    \E sid \in DOMAIN sessions :
        /\ Len(sessions[sid].resources) = 2
        /\ sessions[sid].totalResources = 2
        /\ sessions[sid].status = "cleaned"

\* C31: any two records of one session have different ids, also when the same
\* resource is tracked twice at one instant of the clock.
C31_RecordIdsUnique ==
    \A sid \in DOMAIN sessions :
        \A i, j \in 1..Len(sessions[sid].resources) :
            i # j => sessions[sid].resources[i].id # sessions[sid].resources[j].id

\* C34: while executeCleanup is in its loops, the status of its session is
\* cleaning both in memory and in the tracking file.
C34_CleaningPersistedBeforeDeleting ==
    lpc = "cleaning"
    => LET sid == cleanup[1].sessionId
           file == LoadTracking(store)
       IN /\ sessions[sid].status = "cleaning"
          /\ sid \in DOMAIN file
          /\ file[sid].status = "cleaning"

(***************************************************************************)
(* Properties of the in-memory ledger (checked under DurableLedgerSpec).   *)
(***************************************************************************)
IsPrefix(a, b) == Len(a) <= Len(b) /\ \A i \in 1..Len(a) : a[i] = b[i]

\* C32: every record of a session carries the id of that session as its
\* demoSessionId and the tenantId of that session.
C32_RecordsBelongToTheirSession ==
    \A sid \in DOMAIN sessions :
        \A i \in 1..Len(sessions[sid].resources) :
            /\ sessions[sid].resources[i].demoSessionId = sid
            /\ sessions[sid].resources[i].demoSessionId = sessions[sid].sessionId
            /\ sessions[sid].resources[i].tenantId = sessions[sid].tenantId

C32_Witness ==
    /\ Cardinality(DOMAIN sessions) = 2
    /\ \E a, b \in DOMAIN sessions :
          /\ sessions[a].tenantId = "T1" /\ Len(sessions[a].resources) = 1
          /\ sessions[b].tenantId = "T2" /\ Len(sessions[b].resources) = 1

\* C33: over trackResource, executeCleanup and completeDemoSession calls the
\* records of a session only grow at the end: what getSessionResources
\* returned before a step is a prefix of what it returns after it.
C33_RecordsAppendOnly ==
    [][(~ \E tenantId \in Tenants, rnd \in Randoms : startDemoSession(tenantId, rnd))
       => \A sid \in DOMAIN sessions :
              IsPrefix(getSessionResources(sessions, sid),
                       getSessionResources(sessions', sid))]_vars

C33_Witness ==
    \E sid \in DOMAIN sessions :
        /\ sessions[sid].status = "cleaned"
        /\ Len(getSessionResources(sessions, sid)) = 2
        /\ getSessionResources(sessions, sid)[1].resourceType = "license"
        /\ getSessionResources(sessions, sid)[2].resourceType = "user"

\* C39: every session has 0 <= cleanedResources <= totalResources.
C39_CleanedWithinTotal ==
    \A sid \in DOMAIN sessions :
        /\ 0 <= sessions[sid].cleanedResources
        /\ sessions[sid].cleanedResources <= sessions[sid].totalResources

C39_Witness ==
    \E sid \in DOMAIN sessions :
        /\ sessions[sid].cleanedResources = 1
        /\ sessions[sid].totalResources = 2
        /\ sessions[sid].status = "cleaned"

(***************************************************************************)
(* Properties of the planner and the executor (checked under PlanSpec).    *)
(***************************************************************************)
Range(f) == {f[i] : i \in DOMAIN f}

\* the session executeCleanup is working on, and its records
CleaningSession == sessions[cleanup[1].sessionId]
LoopsDone == lpc = "cleaning" /\ cleanup[1].queue = <<>>

\* the dependency order of deletion
DependencyOrder == <<"file", "email", "chat", "license", "user", "team">>
Rank(type) == CHOOSE i \in 1..Len(DependencyOrder) : DependencyOrder[i] = type
\* where the record with this id stands in the session's list of resources
PositionOf(id, rs) == CHOOSE k \in 1..Len(rs) : rs[k].id = id

\* C13: when the loops of a live executeCleanup are done, every record of the
\* session has been visited by them, whatever its type.
C13_LiveCleanupCoversLedger ==
    (LoopsDone /\ ~cleanup[1].dryRun)
    => \A k \in 1..Len(CleaningSession.resources) :
           CleaningSession.resources[k].id \in Range(cleanup[1].processed)

\* C14: executeCleanup visits each record of the session at most once; of two
\* visited records of different types the one whose type comes first in
\* file, email, chat, license, user, team is visited first, and of two of the
\* same type the one tracked first is visited first.
C14_ProcessedInDependencyOrder ==
    lpc = "cleaning"
    => LET rs == CleaningSession.resources
           p == cleanup[1].processed
       IN /\ \A i \in 1..Len(p) : \E k \in 1..Len(rs) : rs[k].id = p[i]
          /\ \A i, j \in 1..Len(p) :
                i < j =>
                  LET a == PositionOf(p[i], rs)
                      b == PositionOf(p[j], rs)
                  IN /\ p[i] # p[j]
                     /\ \/ Rank(rs[a].resourceType) < Rank(rs[b].resourceType)
                        \/ /\ rs[a].resourceType = rs[b].resourceType
                           /\ a < b

C14_Witness ==
    /\ LoopsDone
    /\ Len(cleanup[1].processed) = 3
    /\ CleaningSession.resources[1].resourceType = "user"
    /\ CleaningSession.resources[2].resourceType = "license"
    /\ CleaningSession.resources[3].resourceType = "user"

\* C15: when executeCleanup returns, the status of the session is active after
\* a dry run and cleaned after a live run, and after a live run
\* cleanedResources equals the number of records of the session, also when
\* the try block of some loop pass threw.
C15_FinalStatusAndCount ==
    [][cleanupFinish
       => LET c == cleanup[1]
              after == sessions'[c.sessionId]
          IN /\ after.status = (IF c.dryRun THEN "active" ELSE "cleaned")
             /\ ~c.dryRun => after.cleanedResources = Len(after.resources)]_vars

\* C16: a loop pass whose try block throws does not end executeCleanup: the
\* records that follow in the plan are still visited, and no call leaves the
\* session in status cleaning behind.
C16_ItemFailureDoesNotAbort ==
    /\ lpc = "idle" => /\ \A sid \in DOMAIN sessions : sessions[sid].status # "cleaning"
                       /\ lastOp = None
    /\ LoopsDone
       => \A k \in 1..Len(CleaningSession.resources) :
              CleaningSession.resources[k].resourceType \in Range(DependencyOrder)
              => CleaningSession.resources[k].id \in Range(cleanup[1].processed)

C16_Witness ==
    /\ LoopsDone
    /\ Len(cleanup[1].processed) = 3
    /\ cleanup[1].errors = <<cleanup[1].processed[1]>>

\* C17: a dry run of executeCleanup issues no provider delete request.
C17_DryRunDeletesNothing ==
    (lpc = "cleaning" /\ cleanup[1].dryRun) => cleanup[1].deletes = <<>>

C17_Witness ==
    /\ LoopsDone
    /\ cleanup[1].dryRun
    /\ Len(cleanup[1].processed) = 3
    /\ cleanup[1].errors = <<>>

\* C18: a live executeCleanup has issued, for each record whose loop pass it
\* completed, exactly one DELETE request to the record's graphApiEndpoint
\* carrying the caller's access token.
C18_LiveRunDeletesEachItem ==
    (lpc = "cleaning" /\ ~cleanup[1].dryRun)
    => LET c == cleanup[1]
           rs == CleaningSession.resources
       IN \A k \in 1..Len(rs) :
              rs[k].id \in Range(c.processed) \ Range(c.errors)
              => Cardinality({j \in 1..Len(c.deletes) :
                                 c.deletes[j] = [method |-> "DELETE",
                                                 url |-> rs[k].graphApiEndpoint,
                                                 authorization |-> c.accessToken]}) = 1

\* the types of the records of a session
TypesOf(session) ==
    {session.resources[k].resourceType : k \in 1..Len(session.resources)}
\* the positions in rs of the records of one type
PositionsOfType(rs, type) == {k \in 1..Len(rs) : rs[k].resourceType = type}

\* C19: for every session, whatever records it holds, the plan has order
\* file, email, chat, license, user, team, and its group of each of these types
\* holds exactly the session's records of that type, oldest first; for a
\* session of one user and then one license that is the license under license,
\* the user under user, and no warning.
C19_PlanOrderAndGroups ==
    lpc = "cleaning"
    => LET plan == cleanup[1].plan
           rs == CleaningSession.resources
       IN /\ plan.order = <<"file", "email", "chat", "license", "user", "team">>
          /\ \A i \in 1..Len(plan.order) :
                LET type == plan.order[i]
                    g == plan.resources[type]
                IN /\ Len(g) = Cardinality(PositionsOfType(rs, type))
                   /\ \A a \in 1..Len(g) : \E k \in PositionsOfType(rs, type) : g[a] = rs[k]
                   /\ \A a, b \in 1..Len(g) :
                         a < b => PositionOf(g[a].id, rs) < PositionOf(g[b].id, rs)
          /\ (Len(rs) = 2 /\ rs[1].resourceType = "user" /\ rs[2].resourceType = "license")
             => /\ plan.resources["license"] = <<rs[2]>>
                /\ plan.resources["user"] = <<rs[1]>>
                /\ plan.warnings = <<>>

C19_Witness ==
    /\ lpc = "cleaning"
    /\ Len(CleaningSession.resources) = 2
    /\ CleaningSession.resources[1].resourceType = "user"
    /\ CleaningSession.resources[2].resourceType = "license"
    /\ cleanup[1].plan.resources["license"] = <<CleaningSession.resources[2]>>

\* C20 as stated: for a session whose records have exactly the types user, file
\* and license, the order of the plan is file, license, user.
C20_OrderFilteredToTypesPresent ==
    (lpc = "cleaning" /\ TypesOf(CleaningSession) = {"user", "file", "license"})
    => cleanup[1].plan.order = <<"file", "license", "user">>

\* C20 as amended: for such a session the order of the plan is the whole
\* sequence file, email, chat, license, user, team, and the types of that order
\* whose group is not empty are file, license, user, in that order.
C20_OrderFixedGroupsFiltered ==
    (lpc = "cleaning" /\ TypesOf(CleaningSession) = {"user", "file", "license"})
    => LET plan == cleanup[1].plan
       IN /\ plan.order = <<"file", "email", "chat", "license", "user", "team">>
          /\ SelectSeq(plan.order, LAMBDA type : plan.resources[type] # <<>>)
                 = <<"file", "license", "user">>

C20_Witness ==
    /\ lpc = "cleaning"
    /\ TypesOf(CleaningSession) = {"user", "file", "license"}
    /\ CleaningSession.resources[1].resourceType = "user"


\* C35: a record whose type is outside the fixed order is in the plan's groups
\* under its own type, the plan warns about that type, and the type is not in
\* the plan's order.
C35_UnknownTypeGroupedAndWarned ==
    lpc = "cleaning"
    => LET plan == cleanup[1].plan
           rs == CleaningSession.resources
       IN \A k \in 1..Len(rs) :
              LET type == rs[k].resourceType
              IN type \notin Range(DependencyOrder)
                 => /\ type \in DOMAIN plan.resources
                    /\ rs[k] \in Range(plan.resources[type])
                    /\ <<"Unknown resource type", type>> \in Range(plan.warnings)
                    /\ type \notin Range(plan.order)

C35_Witness ==
    /\ lpc = "cleaning"
    /\ Len(CleaningSession.resources) = 2
    /\ CleaningSession.resources[1].resourceType = "other"
    /\ CleaningSession.resources[2].resourceType = "file"
    /\ cleanup[1].plan.resources["other"] = <<CleaningSession.resources[1]>>

\* C36: the plan holds the orphaned-license warning exactly when the session
\* has a user record and no license record; with the warning executeCleanup
\* still visits the records of the plan and ends with the final status.
C36_OrphanWarningIsAdvisory ==
    /\ [](lpc = "cleaning"
          => /\ (OrphanWarning \in Range(cleanup[1].plan.warnings))
                <=> /\ "user" \in TypesOf(CleaningSession)
                    /\ "license" \notin TypesOf(CleaningSession)
             /\ (LoopsDone /\ OrphanWarning \in Range(cleanup[1].plan.warnings))
                => \A k \in 1..Len(CleaningSession.resources) :
                       CleaningSession.resources[k].resourceType = "user"
                       => CleaningSession.resources[k].id
                              \in Range(cleanup[1].processed))
    /\ [][(LoopsDone /\ OrphanWarning \in Range(cleanup[1].plan.warnings))
          => /\ lpc' = "idle"
             /\ lastOp' = None
             /\ sessions'[cleanup[1].sessionId].status =
                    (IF cleanup[1].dryRun THEN "active" ELSE "cleaned")]_vars

C36_Witness ==
    /\ LoopsDone
    /\ OrphanWarning \in Range(cleanup[1].plan.warnings)
    /\ Len(CleaningSession.resources) = 2
    /\ TypesOf(CleaningSession) = {"user", "file"}
    /\ Len(cleanup[1].processed) = 2

\* C38: a call of executeCleanup on a known session that has started always
\* comes to its end, also when loop passes fail, and at its end the status of
\* the session is active or cleaned, not cleaning.
C38_ExecuteLeavesCleaning ==
    lpc = "cleaning"
    ~> (/\ lpc = "idle"
        /\ lastOp = None
        /\ sessions[PlanSessionId].status \in {"active", "cleaned"})

C38_Witness ==
    /\ lpc = "idle"
    /\ sessions[PlanSessionId].status = "cleaned"
    /\ Len(sessions[PlanSessionId].resources) = 3
    /\ sessions[PlanSessionId].cleanedResources = 1

(***************************************************************************)
(* Two managers over one tracking file (checked under SharedStoreSpec).    *)
(***************************************************************************)
\* C37: with the calls of the two managers one after the other, a session
\* that one of them wrote to the tracking file is not removed from it by a
\* later write of the other.
C37_NoWriteLostBetweenManagers ==
    [][\A sid \in DOMAIN LoadTracking(store) : sid \in DOMAIN LoadTracking(store')]_vars

(***************************************************************************)
(* handleCallback with a state that is no JSON text (checked under Spec).  *)
(***************************************************************************)
\* C40: a handleCallback call whose state is a bare random text has failed
\* without a token request, an enrichment read, a drive read or an audit event.
C40_UnparsableStateFailsBeforeNetwork ==
    callState = Some("uuid")
    => /\ net = <<>>
       /\ audit = <<>>
       /\ tokens = None
       /\ user = None
       /\ oneDriveResult = None
       /\ pc = "returned"

C40_Witness ==
    /\ pc = "returned"
    /\ callState = Some("uuid")
    /\ result = Some(AuthFailure("CALLBACK_ERROR"))
    /\ net = <<>>
    /\ audit = <<>>

====
